---- MODULE Spec2Model ----
(***************************************************************************)
(* Model of the nighttime-light ETL pipeline of src/etl_main.py:           *)
(* download_real_viirs (Fetcher), analyze_change (Analyzer),               *)
(* export_to_cloud (Exporter) and the __main__ loop (Orchestrator).        *)
(*                                                                         *)
(* The archive client, the raster decoder and the database are external    *)
(* collaborators: what they return or raise is chosen nondeterministically *)
(* from small sets.  Radiance values are the integers of the raw rasters   *)
(* (astype(float) makes the subtraction signed and exact on them), and     *)
(* geographic coordinates are counted in units of 0.01 degree, so that the *)
(* cell side 0.01 of the exporter is the integer 1.                        *)
(***************************************************************************)
EXTENDS Integers, Sequences, FiniteSets, TLC

VARIABLES
    run,          \* number of the current process run, up to MaxRuns
    DB_URL,       \* os.getenv("DATABASE_URL") of the current run, None if absent
    archive,      \* what the archive holds for each city (the same on every run)
    city,         \* index into TARGET_CITIES of the loop variable `city`
    pc,           \* position of the run inside the loop body
    date,         \* index into dates of the fetch loop
    final_paths,  \* download_real_viirs: the verified paths collected so far
    analysis,     \* (indices, gt, diff) returned by analyze_change
    report,       \* per city, what happened to it in the current run
    committed,    \* rows of table analysis_grid that are committed
    conns,        \* database connections that are open
    opened,       \* number of psycopg2.connect calls that returned, this run
    uploads,      \* per city, number of exports that committed, over all runs
    faults        \* number of collaborator failures so far

vars == <<run, DB_URL, archive, city, pc, date, final_paths, analysis, report,
          committed, conns, opened, uploads, faults>>

----------------------------------------------------------------------------
(* Bounds of the model: the number of runs of the job, the number of       *)
(* collaborator calls that fail or come back empty over all runs, and the  *)
(* latest insert iteration at which cursor.execute is made to raise.       *)

MaxRuns == 2
MaxFaults == 2
MaxFailAt == 2

(* Configuration of the program *)

TARGET_CITIES == <<"Lahore", "New York", "London", "Tokyo">>
dates == <<"2022-01-15", "2023-01-15">>
MinFileSize == 1000
Threshold == 5
limit == 500
CellSide == 1

Cities == 1..Len(TARGET_CITIES)
None == "None"

----------------------------------------------------------------------------
(* Rasters.  An array is a sequence of rows, each a sequence of pixel      *)
(* values; a product is what the archive holds for one city: the array of  *)
(* each date and the affine transform of the newer sub-layer.              *)

Ramp(rows, cols, base) ==
    [y \in 1..rows |-> [x \in 1..cols |-> base + (y - 1) * cols + (x - 1)]]

Flat(rows, cols, v) == [y \in 1..rows |-> [x \in 1..cols |-> v]]

ReadAsArray(product, path) ==
    IF path = dates[1] THEN product.old ELSE product.new

GetGeoTransform(product) == product.gt

(* analyze_change, line 94: the difference of one pixel, taken on floats *)
SubtractWrapped(new_v, old_v) == (new_v - old_v) % 65536
Subtract(new_v, old_v) == new_v - old_v

(* analyze_change, line 97: the threshold test of one pixel *)
Exceeds(d) == d > Threshold

Diff(data_new, data_old) ==
    [y \in 1..Len(data_new) |->
        [x \in 1..Len(data_new[1]) |-> Subtract(data_new[y][x], data_old[y][x])]]

(* np.where(mask): the pair of parallel 0-based row and column index       *)
(* sequences of the selected positions, in row-major order.                *)
Where(diff) ==
    LET R == Len(diff)
        C == Len(diff[1])
        scan == [k \in 1..(R * C) |-> <<(k - 1) \div C, (k - 1) % C>>]
        sel == SelectSeq(scan, LAMBDA p : Exceeds(diff[p[1] + 1][p[2] + 1]))
    IN  << [i \in 1..Len(sel) |-> sel[i][1]], [i \in 1..Len(sel) |-> sel[i][2]] >>

Sentinel == [ok |-> FALSE]

(* analyze_change, lines 76-106; decoded is FALSE when the decoder fails   *)
analyze_change(files, product, decoded) ==
    IF Len(files) < 2 THEN Sentinel
    ELSE IF ~decoded THEN Sentinel
    ELSE LET data_old == ReadAsArray(product, files[1])
             data_new == ReadAsArray(product, files[2])
             diff == Diff(data_new, data_old)
         IN  [ok |-> TRUE, indices |-> Where(diff),
              gt |-> GetGeoTransform(product), diff |-> diff]

----------------------------------------------------------------------------
(* export_to_cloud *)

(* line 114: `if not DB_URL` is taken when the variable is unset or empty *)
DbConfiguredAlways(url) == TRUE
DbConfigured(url) == url # None /\ url # ""

(* line 129: `if count >= limit: break` *)
CapReachedLate(count) == count > limit
CapReached(count) == count >= limit

(* line 139: the closed ring of the cell anchored at (lon, lat) *)
Polygon(lon, lat) ==
    << <<lon, lat>>, <<lon + CellSide, lat>>, <<lon + CellSide, lat - CellSide>>,
       <<lon, lat - CellSide>>, <<lon, lat>> >>

(* lines 131-144: the row inserted for the 0-based pixel (y, x) *)
Row(city_name, count, y, x, gt, diff_data) ==
    LET val == diff_data[y + 1][x + 1]
        lon == gt[1] + x * gt[2] + y * gt[3]
        lat == gt[4] + x * gt[5] + y * gt[6]
    IN  [cell_id |-> <<city_name, count>>, mean_radiance_2024 |-> val,
         trend_slope |-> val, risk_level |-> "Critical", geom |-> Polygon(lon, lat)]

(* lines 125-146: the insert loop.  count starts at 0 and grows by one in *)
(* every iteration, as the loop index i does, so iteration i (0-based)     *)
(* runs with count = i.  The loop stops before the first i at which the    *)
(* indices are exhausted (line 128), the cap is reached (line 129) or      *)
(* cursor.execute raises (line 141); failAt is the 1-based iteration whose *)
(* execute raises, 0 if none does.  Yields the rows executed on the        *)
(* connection, the final count and whether the loop raised.                *)
InsertLoop(city_name, a, failAt) ==
    LET n == Len(a.indices[1])
        stops == { i \in 0..n : i = n \/ CapReached(i) \/ failAt = i + 1 }
        stop == CHOOSE i \in stops : \A j \in stops : i <= j
    IN  [txn |-> [k \in 1..stop |->
                     Row(city_name, k - 1, a.indices[1][k], a.indices[2][k],
                         a.gt, a.diff)],
         count |-> stop,
         raised |-> stop < n /\ ~CapReached(stop) /\ failAt = stop + 1]

(* lines 122-123: the DELETE of the city's old rows is commented out *)
CleanOldEnabled(db, city_name) ==
    SelectSeq(db, LAMBDA r : r.cell_id[1] # city_name)
CleanOld(db, city_name) == db

(* line 148: conn.commit() makes the rows executed on the connection durable *)
Commit(db, txn) == db \o txn

(* lines 152-153: the handler logs; nothing executed on the connection is  *)
(* committed, and the connection is not closed.                            *)
AbortedCommits(db, txn) == db \o txn
Aborted(db, txn) == db

----------------------------------------------------------------------------
(* The orchestrator's bookkeeping *)

Pending ==
    [status |-> "pending", raised |-> "none", auth |-> "none", fetched |-> FALSE, nfiles |-> 0,
     analyzed |-> FALSE, exported |-> FALSE, rows |-> 0]

(* line 161: the loop moves on to the next city, or ends (line 179) *)
NextRegion(r) ==
    /\ report' = [report EXCEPT ![city] = r]
    /\ IF city < Len(TARGET_CITIES)
         THEN city' = city + 1 /\ pc' = "login"
         ELSE city' = city /\ pc' = "done"
    /\ date' = 1
    /\ final_paths' = <<>>
    /\ analysis' = Sentinel

(* lines 176-177: `except Exception` at the region boundary logs and lets  *)
(* the loop go on; stage names the call that raised.                       *)
CatchRegionHalts(stage) ==
    /\ report' = [report EXCEPT ![city] =
                     [report[city] EXCEPT !.status = "critical", !.raised = stage]]
    /\ pc' = "crashed"
    /\ UNCHANGED <<city, date, final_paths, analysis>>
CatchRegion(stage) ==
    NextRegion([report[city] EXCEPT !.status = "critical", !.raised = stage])

(* lines 39-41: sys.exit(1) raises SystemExit, which `except Exception`    *)
(* does not catch: the process ends.                                       *)
AuthFailedSkips(r) ==
    NextRegion([r EXCEPT !.status = "auth_failed"])
AuthFailed(r) ==
    /\ report' = [report EXCEPT ![city] = [r EXCEPT !.status = "auth_failed"]]
    /\ pc' = "exited"
    /\ UNCHANGED <<city, date, final_paths, analysis>>

(* lines 36-38: a login that authenticated; the function goes on to the    *)
(* loop over dates.                                                        *)
Authenticated(r) ==
    /\ report' = [report EXCEPT ![city] = r]
    /\ pc' = "fetch"
    /\ UNCHANGED <<city, date, final_paths, analysis>>

AuthResults == {"authenticated", "denied", "raise"}

(* lines 36-41: earthaccess.login under the environment strategy and, if  *)
(* that does not authenticate, under the interactive one; report records   *)
(* the strategy that authenticated.                                        *)
Login ==
    /\ pc = "login"
    /\ \E env \in AuthResults, inter \in AuthResults :
          /\ faults' = faults + (IF env = "authenticated" THEN 0 ELSE 1)
          /\ faults' <= MaxFaults
          /\ env # "denied" => inter = "authenticated"
          /\ CASE env = "raise" -> CatchRegion("login")
               [] env = "authenticated" ->
                     Authenticated([report[city] EXCEPT !.auth = "environment"])
               [] env = "denied" /\ inter = "raise" -> CatchRegion("login")
               [] env = "denied" /\ inter = "authenticated" ->
                     Authenticated([report[city] EXCEPT !.auth = "interactive"])
               [] OTHER -> AuthFailed([report[city] EXCEPT !.auth = "denied"])
    /\ UNCHANGED <<run, DB_URL, archive, committed, conns, opened, uploads>>

FileSizes == {MinFileSize - 1, MinFileSize}

(* line 64: a file under the minimum size is corrupt *)
Verified(size) == ~(size < MinFileSize)

(* lines 47-71: one iteration of the loop over dates: search, download and *)
(* the size check; after the last date the function returns final_paths.   *)
FetchDate ==
    /\ pc = "fetch"
    /\ \E search \in {"raise", "empty", "found"},
          download \in {"raise", "empty", "file"},
          size \in FileSizes :
          LET kept == search = "found" /\ download = "file" /\ Verified(size)
              nominal == search = "found" /\ download = "file" /\ size >= MinFileSize
              paths == IF kept THEN Append(final_paths, dates[date]) ELSE final_paths
          IN  /\ faults' = faults + (IF nominal THEN 0 ELSE 1)
              /\ faults' <= MaxFaults
              /\ IF search = "raise"
                   THEN CatchRegion("search")
                   ELSE /\ final_paths' = paths
                        /\ IF date < Len(dates)
                             THEN /\ date' = date + 1
                                  /\ pc' = "fetch"
                                  /\ report' = report
                             ELSE /\ date' = date
                                  /\ pc' = "analyze"
                                  /\ report' = [report EXCEPT ![city] =
                                        [report[city] EXCEPT !.fetched = TRUE,
                                                             !.nfiles = Len(paths)]]
                        /\ UNCHANGED <<city, analysis>>
    /\ UNCHANGED <<run, DB_URL, archive, committed, conns, opened, uploads>>

(* line 167: `if len(files) >= 2` *)
EnoughFiles(files) == Len(files) >= 2

(* line 171: `if indices is not None` *)
HasResultAlways(a) == TRUE
HasResult(a) == a.ok

(* lines 166-174: the analysis of the region and the branch on its result *)
Analyze ==
    /\ pc = "analyze"
    /\ IF EnoughFiles(final_paths)
         THEN \E decoded \in BOOLEAN :
                 LET a == analyze_change(final_paths, archive[city], decoded)
                 IN  /\ faults' = faults + (IF decoded THEN 0 ELSE 1)
                     /\ faults' <= MaxFaults
                     /\ IF HasResult(a)
                          THEN /\ analysis' = a
                               /\ pc' = "export"
                               /\ report' = [report EXCEPT ![city] =
                                                [report[city] EXCEPT !.analyzed = a.ok]]
                               /\ UNCHANGED <<city, date, final_paths>>
                          ELSE NextRegion([report[city] EXCEPT !.status = "analysis_failed"])
         ELSE /\ NextRegion([report[city] EXCEPT !.status = "insufficient"])
              /\ faults' = faults
    /\ UNCHANGED <<run, DB_URL, archive, committed, conns, opened, uploads>>

(* lines 152-153 on a connection that line 119 had opened: conn.close()   *)
(* (line 149) was not reached, the connection stays open with the rows it *)
(* had executed and not committed.                                         *)
LeftOpen(cs, city_name, txn) == cs \cup {[owner |-> city_name, txn |-> txn]}

(* lines 111-153: one call of export_to_cloud for the current city.  fail  *)
(* names the database call that raises, k the iteration whose execute      *)
(* raises.                                                                 *)
Export ==
    /\ pc = "export"
    /\ LET city_name == TARGET_CITIES[city]
           called == [report[city] EXCEPT !.exported = TRUE]
       IN  IF ~DbConfigured(DB_URL)
             THEN /\ NextRegion([called EXCEPT !.status = "no_db"])
                  /\ UNCHANGED <<committed, conns, opened, uploads, faults>>
             ELSE \E fail \in {"none", "connect", "execute", "commit"}, k \in 1..MaxFailAt :
                     /\ faults' = faults + (IF fail = "none" THEN 0 ELSE 1)
                     /\ faults' <= MaxFaults
                     /\ fail # "execute" => k = 1
                     /\ IF fail = "connect"
                          THEN /\ NextRegion([called EXCEPT !.status = "upload_failed"])
                               /\ UNCHANGED <<committed, conns, opened, uploads>>
                          ELSE /\ opened' = opened + 1
                               /\ IF ~analysis.ok
                                    THEN \* line 128: len(None[0]) raises TypeError
                                         /\ committed' = Aborted(committed, <<>>)
                                         /\ conns' = LeftOpen(conns, city_name, <<>>)
                                         /\ uploads' = uploads
                                         /\ NextRegion([called EXCEPT !.status = "upload_failed"])
                                    ELSE LET r == InsertLoop(city_name, analysis,
                                                             IF fail = "execute" THEN k ELSE 0)
                                         IN  IF r.raised \/ fail = "commit"
                                               THEN /\ committed' = Aborted(committed, r.txn)
                                                    /\ conns' = LeftOpen(conns, city_name, r.txn)
                                                    /\ uploads' = uploads
                                                    /\ NextRegion([called EXCEPT
                                                          !.status = "upload_failed"])
                                               ELSE /\ committed' =
                                                         Commit(CleanOld(committed, city_name), r.txn)
                                                    /\ conns' = conns
                                                    /\ uploads' = [uploads EXCEPT ![city] = @ + 1]
                                                    /\ NextRegion([called EXCEPT
                                                          !.status = "uploaded",
                                                          !.rows = r.count])
    /\ UNCHANGED <<run, DB_URL, archive>>

(* The runtime may reclaim a connection object that nothing references any *)
(* more, at a time of its choosing; the rows it had not committed are      *)
(* rolled back.                                                            *)
Finalize ==
    /\ pc \notin {"done", "exited", "crashed"}
    /\ \E c \in conns : conns' = conns \ {c}
    /\ UNCHANGED <<run, DB_URL, archive, city, pc, date, final_paths, analysis,
                   report, committed, opened, uploads, faults>>

DbUrls == {None, "postgresql://db"}

(* The script is started again (it is a periodic batch job): a new process *)
(* reads the environment anew; the table keeps its rows.                   *)
Rerun ==
    /\ pc \in {"done", "exited"}
    /\ run < MaxRuns
    /\ run' = run + 1
    /\ DB_URL' \in DbUrls
    /\ city' = 1
    /\ pc' = "login"
    /\ date' = 1
    /\ final_paths' = <<>>
    /\ analysis' = Sentinel
    /\ report' = [c \in Cities |-> Pending]
    /\ conns' = {}
    /\ opened' = 0
    /\ UNCHANGED <<archive, committed, uploads, faults>>

Next == Login \/ FetchDate \/ Analyze \/ Export \/ Finalize \/ Rerun

----------------------------------------------------------------------------
(* What the archive holds *)

GT == <<7350, 2, 1, 3200, 1, -2>>

ProductX == [old |-> <<<<0, 0>>, <<0, 20>>>>, new |-> <<<<0, 0>>, <<0, 26>>>>, gt |-> GT]
ProductMixed ==
    [old |-> <<<<10, 0>>, <<3, 65535>>>>, new |-> <<<<2, 5>>, <<9, 0>>>>, gt |-> GT]
ProductBright ==
    [old |-> <<<<0, 1>>, <<2, 3>>>>, new |-> <<<<40, 30>>, <<20, 10>>>>, gt |-> GT]
ProductDark == [old |-> Flat(2, 2, 7), new |-> Flat(2, 2, 7), gt |-> GT]

Worlds ==
    { [c \in Cities |-> <<ProductX, ProductMixed, ProductDark, ProductBright>>[c]],
      [c \in Cities |-> <<ProductBright, ProductBright, ProductX, ProductMixed>>[c]] }

InitRun(worlds, run0, faults0) ==
    /\ run = run0
    /\ DB_URL \in DbUrls
    /\ archive \in worlds
    /\ city = 1
    /\ pc = "login"
    /\ date = 1
    /\ final_paths = <<>>
    /\ analysis = Sentinel
    /\ report = [c \in Cities |-> Pending]
    /\ committed = <<>>
    /\ conns = {}
    /\ opened = 0
    /\ uploads = [c \in Cities |-> 0]
    /\ faults = faults0

Init == InitRun(Worlds, 1, 0)

Spec == Init /\ [][Next]_vars

(* A run whose first city has more hotspots than the cap: 2 x 251 pixels,  *)
(* all of them brighter, the later in scan order the larger the increase. *)
ProductBig == [old |-> Flat(2, 251, 0), new |-> Ramp(2, 251, 6), gt |-> GT]

BigWorlds ==
    { [c \in Cities |-> IF c = 1 THEN ProductBig
                        ELSE <<ProductX, ProductX, ProductDark, ProductMixed>>[c]] }

(* the last two runs of the job, with one collaborator failure in them *)
InitBig == InitRun(BigWorlds, MaxRuns - 1, MaxFaults - 1)

SpecBig == InitBig /\ [][Next]_vars

(* Runs over every pair of 1 x 2 arrays of the pixel values below, the     *)
(* same product for every city.                                            *)
PixelValues == {0, 2, 10, 15}

Arrays == { <<row>> : row \in [1..2 -> PixelValues] }

AnalyzeWorlds ==
    { [c \in Cities |-> [old |-> a, new |-> b, gt |-> GT]] : a \in Arrays, b \in Arrays }

(* the last two runs of the job, with one collaborator failure in them *)
InitAnalyze == InitRun(AnalyzeWorlds, MaxRuns - 1, MaxFaults - 1)

SpecAnalyze == InitAnalyze /\ [][Next]_vars

----------------------------------------------------------------------------
(* Properties *)

Min(a, b) == IF a < b THEN a ELSE b

IsPrefix(s, t) == Len(s) <= Len(t) /\ SubSeq(t, 1, Len(s)) = s

Positions(product) ==
    (0..(Len(product.new) - 1)) \X (0..(Len(product.new[1]) - 1))

(* the pixels whose radiance grew by more than 5, as a set of 0-based      *)
(* (row, column) pairs                                                     *)
HotSet(product) ==
    { p \in Positions(product) :
        product.new[p[1] + 1][p[2] + 1] - product.old[p[1] + 1][p[2] + 1] > 5 }

CityRows(c) == SelectSeq(committed, LAMBDA r : r.cell_id[1] = TARGET_CITIES[c])

SkipStatuses == {"insufficient", "analysis_failed", "upload_failed", "no_db", "critical"}

PastRegion(c) == c < city \/ pc = "done"

(* C1: an exception raised while a region is processed is caught at that   *)
(* region's boundary (or inside the stage that raised): the run never      *)
(* stops on it, the loop is past every region that raised, and a run that  *)
(* reaches its end has processed every region of the list.                 *)
C1_RegionFailureIsolated ==
    /\ pc # "crashed"
    /\ \A c \in Cities :
          report[c].status \in {"critical", "analysis_failed", "upload_failed"}
             => PastRegion(c)
    /\ pc = "done" => \A c \in Cities : report[c].status # "pending"

C1_Witness ==
    /\ pc = "done"
    /\ report[1].status = "critical" /\ report[1].raised = "login"
    /\ report[2].status = "critical" /\ report[2].raised = "search"
    /\ report[3].status \in {"uploaded", "no_db"}

(* C2: export is called for a region only after the Fetcher returned at    *)
(* least two verified files and the Analyzer returned a result; a region   *)
(* with fewer than two files, or whose analysis gave the sentinel, is      *)
(* skipped without export, without rows and without an exception; and the  *)
(* table changes only in the export step of such a region, by rows of it.  *)
C2_RowsOnlyAfterAnalysis ==
    /\ [](/\ pc # "crashed"
          /\ pc = "export" => report[city].analyzed
          /\ \A c \in Cities :
               /\ (report[c].exported \/ report[c].rows > 0) =>
                     report[c].fetched /\ report[c].nfiles >= 2 /\ report[c].analyzed
               /\ (report[c].fetched /\ report[c].nfiles < 2) =>
                     /\ ~report[c].exported /\ report[c].rows = 0
                     /\ report[c].status \in {"pending", "insufficient"}
               /\ report[c].status = "analysis_failed" =>
                     ~report[c].analyzed /\ ~report[c].exported /\ report[c].rows = 0)
    /\ [][committed' # committed =>
            /\ pc = "export" /\ analysis.ok /\ Len(final_paths) >= 2
            /\ report'[city].exported
            /\ IsPrefix(committed, committed')
            /\ \A i \in (Len(committed) + 1)..Len(committed') :
                  committed'[i].cell_id[1] = TARGET_CITIES[city]]_vars

C2_Witness ==
    /\ pc = "done"
    /\ report[1].status = "insufficient" /\ report[1].nfiles = 1
    /\ report[2].status = "analysis_failed" /\ report[2].nfiles = 2
    /\ report[4].status = "uploaded" /\ report[4].rows > 0
    /\ CityRows(1) = <<>> /\ CityRows(2) = <<>> /\ CityRows(4) # <<>>

(* what the Analyzer returns for the two files of a city *)
AnalysisOf(c) == analyze_change(dates, archive[c], TRUE)

(* the rows one committed export of city c holds, in the order written *)
ExportOf(c) ==
    LET a == AnalysisOf(c)
        m == Min(Len(a.indices[1]), 500)
    IN  [k \in 1..m |-> Row(TARGET_CITIES[c], k - 1, a.indices[1][k], a.indices[2][k],
                            a.gt, a.diff)]

(* C3: an export that commits writes exactly min(n, 500) rows, n the       *)
(* number of hotspots of the region: the rows of the first min(n, 500)     *)
(* hotspot indices in the Analyzer's order, which is row-major scan order; *)
(* and no export, committed or not, ever holds more than 500 rows.         *)
C3_CapKeepsFirstInScanOrder ==
    /\ \A cn \in conns : Len(cn.txn) <= 500
    /\ \A c \in Cities :
          LET rows == CityRows(c)
              want == ExportOf(c)
              ind == AnalysisOf(c).indices
              cols == Len(archive[c].new[1])
          IN  /\ report[c].rows <= 500
              /\ report[c].status = "uploaded" =>
                    report[c].rows = Min(Cardinality(HotSet(archive[c])), 500)
              /\ Len(rows) = uploads[c] * Len(want)
              /\ \A j \in 1..Len(rows) : rows[j] = want[((j - 1) % Len(want)) + 1]
              /\ \A i \in 1..(Len(ind[1]) - 1) :
                    ind[1][i] * cols + ind[2][i] < ind[1][i + 1] * cols + ind[2][i + 1]

(* a committed export of a region with more than 500 hotspots: 500 rows,   *)
(* and a hotspot left out has a larger increase than every row written     *)
C3_Witness ==
    /\ report[1].status = "uploaded"
    /\ Cardinality(HotSet(archive[1])) > 500
    /\ Len(CityRows(1)) = 500
    /\ \E p \in HotSet(archive[1]) :
          \A j \in 1..Len(CityRows(1)) :
             CityRows(1)[j].trend_slope
                < archive[1].new[p[1] + 1][p[2] + 1] - archive[1].old[p[1] + 1][p[2] + 1]

(* C4: a region's export is all-or-nothing: a step either leaves the table *)
(* as it was or appends, in the one export step of the region and on one   *)
(* connection, all min(n, 500) rows of the region; an export that fails    *)
(* commits nothing, and its exception does not leave export (the region    *)
(* ends as a failed upload, not as a critical error, and the loop goes on).*)
C4_ExportAllOrNothing ==
    /\ [][/\ committed' # committed =>
               /\ pc = "export"
               /\ report'[city].status = "uploaded"
               /\ opened' = opened + 1
               /\ IsPrefix(committed, committed')
               /\ Len(committed') - Len(committed)
                     = Min(Cardinality(HotSet(archive[city])), 500)
          /\ (pc = "export" /\ report'[city].status = "upload_failed") =>
               /\ committed' = committed
               /\ pc' \in {"login", "done"}
               /\ opened' <= opened + 1]_vars
    /\ [](\A c \in Cities : report[c].status = "upload_failed" => PastRegion(c))

(* an export that raised after it had executed a row: nothing of it is in  *)
(* the table                                                               *)
C4_Witness ==
    /\ \E c \in Cities :
          /\ report[c].status = "upload_failed"
          /\ \E cn \in conns : cn.owner = TARGET_CITIES[c] /\ Len(cn.txn) > 0
          /\ CityRows(c) = <<>>
    /\ committed # <<>>

(* C5: the hotspot indices the Analyzer returns are exactly the positions  *)
(* where newer - older > 5 as a signed difference, each once: a difference *)
(* of exactly 5 is left out and a negative difference is never selected.   *)
C5_HotspotsAreSignedExcess ==
    analysis.ok =>
       LET ind == analysis.indices
           got == { <<ind[1][i], ind[2][i]>> : i \in 1..Len(ind[1]) }
           p == archive[city]
       IN  /\ Len(ind[1]) = Len(ind[2])
           /\ got = HotSet(p)
           /\ Cardinality(got) = Len(ind[1])
           /\ \A q \in Positions(p) :
                 LET d == p.new[q[1] + 1][q[2] + 1] - p.old[q[1] + 1][q[2] + 1]
                 IN  /\ analysis.diff[q[1] + 1][q[2] + 1] = d
                     /\ d <= 5 => q \notin got

(* older = (10, 10), newer = (2, 15): differences -8 and exactly 5 *)
C5_Witness ==
    /\ analysis.ok
    /\ archive[city].old = << <<10, 10>> >>
    /\ archive[city].new = << <<2, 15>> >>
    /\ analysis.diff = << <<-8, 5>> >>
    /\ analysis.indices = << <<>>, <<>> >>

(* C6: every archive call made for one date is isolated: whatever the     *)
(* search or the download of a date does, the region is not aborted by it  *)
(* and the fetch returns the files of the dates that succeeded.            *)
C6_FetchCallsIsolated ==
    \A c \in Cities : report[c].raised # "search"

(* C7: the process ends before the end of the region list only when        *)
(* authentication failed under both strategies, and then at once: the      *)
(* current region is not fetched and no later region is touched; after any *)
(* other failure the region is skipped, the loop is past it, and a step of *)
(* the pipeline stays possible until the run is complete.                  *)
C7_OnlyAuthFailureIsFatal ==
    /\ pc \notin {"crashed"}
    /\ pc = "exited" =>
          /\ report[city].status = "auth_failed"
          /\ report[city].auth = "denied"
          /\ ~report[city].fetched /\ ~report[city].exported
          /\ \A c \in Cities : c > city => report[c] = Pending
          /\ \A c \in Cities : c < city => report[c].status \in SkipStatuses \cup {"uploaded"}
    /\ \A c \in Cities :
          /\ report[c].status = "auth_failed" => pc = "exited" /\ c = city
          /\ report[c].auth = "denied" => pc = "exited" /\ c = city
          /\ report[c].status \in SkipStatuses => PastRegion(c)
    /\ pc \notin {"done", "exited"} => ENABLED (Login \/ FetchDate \/ Analyze \/ Export)

C7_Witness ==
    /\ pc = "exited"
    /\ city = 3
    /\ report[1].status = "critical"
    /\ report[2].status = "uploaded" /\ report[2].auth = "environment"
    /\ report[3].status = "auth_failed"
    /\ report[4] = Pending

(* C8: no step deletes or changes a committed row, the table only grows,   *)
(* and every export of a region that commits adds its rows once more: each *)
(* row of the region is in the table as many times as the region was       *)
(* exported, over all runs.                                                *)
C8_RowsAccumulate ==
    /\ [][IsPrefix(committed, committed')]_vars
    /\ [](\A c \in Cities :
            LET want == ExportOf(c)
                rows == CityRows(c)
            IN  /\ Len(rows) = uploads[c] * Len(want)
                /\ \A k \in 1..Len(want) :
                      Cardinality({ i \in 1..Len(rows) : rows[i] = want[k] }) = uploads[c])

C8_Witness ==
    /\ run = 2
    /\ uploads[1] = 2
    /\ report[1].status = "uploaded"
    /\ Len(ExportOf(1)) > 0
    /\ Len(CityRows(1)) = 2 * Len(ExportOf(1))

(* C9: in a run without a destination connection string, export opens no   *)
(* connection, writes no row and raises nothing, and the orchestrator goes *)
(* on with the next region.                                                *)
C9_NoDestinationIsNoOp ==
    /\ [](DB_URL = None =>
            /\ opened = 0 /\ conns = {}
            /\ pc # "crashed"
            /\ \A c \in Cities :
                  /\ report[c].status \notin {"uploaded", "upload_failed"}
                  /\ report[c].rows = 0
                  /\ report[c].exported => report[c].status = "no_db" /\ PastRegion(c))
    /\ [][(DB_URL = None /\ DB_URL' = None) => committed' = committed]_vars

C9_Witness ==
    /\ DB_URL = None
    /\ run = 2 /\ committed # <<>>
    /\ report[1].status = "no_db" /\ report[2].status = "no_db"
    /\ pc = "done"

(* C10: a connection opened by the export of one region is closed when the *)
(* export has returned: none is open while a later region is fetched,      *)
(* analysed or exported, or when the run has ended.                        *)
C10_ConnectionClosedOnEveryPath ==
    pc \in {"fetch", "analyze", "export", "done"} => conns = {}

====
